---- MODULE Spec2Model ----
(***************************************************************************)
(* WorkExchange front end: the credential store (localStorage), the two    *)
(* request gateways (apiService.request of js/api.js, request of the       *)
(* raw-token api module), the session guards, the facade operations and    *)
(* the page scripts that call them.                                        *)
(*                                                                         *)
(* A path is the sequence of its segments, "/" being a segment of its own: *)
(* '/pages/login.html' is <<"/", "pages", "/", "login.html">>.  Every      *)
(* pattern the code matches with endsWith starts with "/", so a suffix     *)
(* match on segments is the suffix match on characters.                    *)
(***************************************************************************)
EXTENDS Integers, Sequences, FiniteSets, TLC

VARIABLES
  localStorage,  \* window.localStorage: key -> string or null
  pathname,      \* window.location.pathname of the document
  href,          \* the pending assignment to window.location.href, or NoNav
  phase,         \* where the page load stands: "guard", "script", "ready"
  lib,           \* the api module the site ships: "api" (js/api.js) or "req"
  inflight,      \* the requests sent and not yet answered
  session,       \* the token of the last successful login or registration
                 \* not followed by a logout or a 401, else NULL
  ev,            \* the step just taken
  gw,            \* one call of a facade operation followed from the building
                 \* of its request to the return to its caller
  form,          \* the page's form: its fields as submitted, its submit
                 \* button, the calls it has outstanding, the page's currentUser
  site,          \* the path under which the server serves the site's files
  ui             \* one component of the page followed on its own: a modal
                 \* dialog or a debounced function

vars == <<localStorage, pathname, href, phase, lib, inflight, session, ev,
          gw, form, site, ui>>

\* ---------------------------------------------------------------- bounds
\* requests a user may have outstanding on one page
MaxInflight == 1
\* the largest coin reward and coin balance
MaxCoins == 2
\* submissions of one form the model follows at a time
MaxSubmits == 2

\* ------------------------------------------------------------- constants
NULL == "null"
NoNav == <<>>
NoHeader == <<>>

Keys == {"token", "auth_token", "current_user"}
\* tokens the server issues
ServerTokens == {"t1"}
Users == {"u1"}
Statuses == {200, 299, 300, 401, 500}
ContentTypes == {"application/json", "text/html"}
Libs == {"api", "req"}
\* the api modules of the repository: the two above and the older raw-token
\* module with registerUser / loginUser
Modules == {"api", "req", "legacy"}

\* the pages a user can open
Pages ==
  { <<"/">>, <<"/", "index.html">>, <<"/", "login.html">>,
    <<"/", "register.html">>,
    <<"/", "pages", "/", "login.html">>,
    <<"/", "pages", "/", "register.html">>,
    <<"/", "pages", "/", "dashboard.html">>,
    <<"/", "pages", "/", "browse-tasks.html">>,
    <<"/", "pages", "/", "my-tasks.html">> }

\* the last segment of a path: the page's file name
PageName(path) == path[Len(path)]

\* JavaScript truthiness of a string-or-null value
Truthy(v) == v # NULL /\ v # ""

\* String.prototype.endsWith on segment sequences
endsWith(s, suffix) ==
  /\ Len(s) >= Len(suffix)
  /\ SubSeq(s, Len(s) - Len(suffix) + 1, Len(s)) = suffix

\* URL resolution of an assignment to window.location.href
Resolve(target, base) ==
  IF Head(target) = "/" THEN target
  ELSE IF base[Len(base)] = "/" THEN base \o target
  ELSE SubSeq(base, 1, Len(base) - 1) \o target

\* JSON.stringify of the object cached as the user: the user record of a
\* response body, or the whole body when it has none
JSONstringify(obj) ==
  CASE obj = "u1" -> "{\"name\":\"u1\"}"
    [] obj = "body" -> "{}"
    [] OTHER -> "undefined"

\* ------------------------------------------------ redirect targets (hrefs)
LoginPath == <<"/", "pages", "/", "login.html">>
LoginRelative == <<"login.html">>
DashboardRelative == <<"dashboard.html">>

\* ------------------------------------------------------ credential store
\* js/api.js
apiService_getToken(ls) == ls["auth_token"]
\* (mutant) the token stored under the guard's key
apiService_setToken_tokenKey(ls, token) == [ls EXCEPT !["token"] = token]
apiService_setToken(ls, token) == [ls EXCEPT !["auth_token"] = token]
apiService_removeToken(ls) == [ls EXCEPT !["auth_token"] = NULL]
apiService_setCurrentUser(ls, user) ==
  [ls EXCEPT !["current_user"] = JSONstringify(user)]
apiService_removeCurrentUser(ls) == [ls EXCEPT !["current_user"] = NULL]

\* raw-token api module
getToken(ls) == ls["token"]
setToken(ls, token) == [ls EXCEPT !["token"] = token]
clearToken(ls) == [ls EXCEPT !["token"] = NULL]

\* the credential the loaded api module holds
LibToken(l, ls) == IF l = "api" THEN apiService_getToken(ls) ELSE getToken(ls)

\* ----------------------------------------------------------- session guard
\* js/auth-guard.js
publicPages ==
  { <<"/", "login.html">>, <<"/", "register.html">>, <<"/", "index.html">>,
    <<"/">> }
\* (mutant) the allow-list matched by equality only
isPublicPage_exact(currentPath) == currentPath \in publicPages

isPublicPage(currentPath) ==
  \E page \in publicPages : endsWith(currentPath, page) \/ currentPath = page

\* (mutant) the guard tests the token against null instead of its truthiness
authGuard_blocks_nullOnly(ls, currentPath) ==
  ls["token"] = NULL /\ ~isPublicPage(currentPath)

\* the guard's decision: TRUE when it redirects and throws
authGuard_blocks(ls, currentPath) ==
  ~Truthy(ls["token"]) /\ ~isPublicPage(currentPath)

\* raw-token api module: requireAuth
requireAuth_isPublicPage(currentPath) ==
  \E page \in publicPages : endsWith(currentPath, page)
requireAuth_blocks(ls, currentPath) ==
  ~Truthy(getToken(ls)) /\ ~requireAuth_isPublicPage(currentPath)

\* ---------------------------------------------------------- request gateway
\* A response: its status, its content-type header, whether its body is
\* well-formed JSON, and the token and user fields of that JSON body.
\* A JSON body is the object in field json, a function from its property
\* names; a body that is not well-formed JSON is the text in field text.
\* an object without properties
NoData == [ k \in {} |-> NULL ]

\* obj[k] of a JavaScript object: NULL (undefined) for a property it lacks
Field(obj, k) == IF k \in DOMAIN obj THEN obj[k] ELSE NULL

\* the bodies of the auth endpoints: a token or none, a user record or none
AuthBodies == [ token : ServerTokens \cup {NULL}, user : Users \cup {NULL} ]

Responses ==
  { r \in [ status : Statuses, ctype : ContentTypes, bodyJson : BOOLEAN,
            json : AuthBodies \cup {NoData}, text : {NULL, "oops"} ] :
      /\ r.bodyJson => (r.json # NoData /\ r.text = NULL)
      /\ ~r.bodyJson => (r.json = NoData /\ r.text = "oops") }

\* response.json() of a well-formed JSON body
responseJson(resp) == resp.json

\* response.text(): the body as it came, JSON source or not
responseText(resp) == IF resp.bodyJson THEN "{...}" ELSE resp.text

\* Response.ok
responseOk(status) == status >= 200 /\ status <= 299

\* the content types that include 'application/json'
JsonContentTypes == {"application/json", "application/json; charset=utf-8"}

\* (mutant) the content type compared for equality
isJsonContentType_exact(ctype) == ctype # NULL /\ ctype = "application/json"

\* contentType && contentType.includes('application/json')
isJsonContentType(ctype) == ctype # NULL /\ ctype \in JsonContentTypes

\* js/api.js: the request's Authorization header
apiService_authHeader(token) ==
  IF Truthy(token) THEN <<"Bearer ", token>> ELSE NoHeader
\* raw-token api module: the request's Authorization header
request_authHeader(token) ==
  IF Truthy(token) THEN <<token>> ELSE NoHeader

\* js/api.js: the body as parsed; threw when response.json() rejects
apiService_parse(resp) ==
  IF isJsonContentType(resp.ctype)
  THEN IF resp.bodyJson
       THEN [ threw |-> FALSE, data |-> responseJson(resp) ]
       ELSE [ threw |-> TRUE, data |-> NoData ]
  ELSE [ threw |-> FALSE,
         data |-> [ message |-> responseText(resp) ] ]

\* the message of the SyntaxError response.json() rejects with
SyntaxError == "SyntaxError: Unexpected token"

\* js/api.js: the message of the Error thrown for a non-2xx response
apiService_errorMessage(data, status) ==
  IF Truthy(Field(data, "message")) THEN Field(data, "message")
  ELSE IF Truthy(Field(data, "error")) THEN Field(data, "error")
  ELSE "HTTP error! status: " \o ToString(status)

\* js/api.js: the 401 branch redirects unless the page is one of these
apiService_redirectOn401(path) ==
  path # <<"/", "login.html">> /\ path # <<"/", "register.html">>

\* (mutant) every client or server error treated as unauthorized
apiService_isUnauthorized_anyError(status) == status >= 400

\* js/api.js: the 401 branch is taken
apiService_isUnauthorized(status) == status = 401

\* js/api.js: what apiService.request does with a response
apiService_request(ls, path, nav, resp) ==
  LET parsed == apiService_parse(resp) IN
  IF parsed.threw
  THEN [ ls |-> ls, nav |-> nav, settled |-> "rejected", data |-> NoData,
         redirected |-> FALSE, error |-> SyntaxError ]
  ELSE IF ~responseOk(resp.status)
  THEN IF apiService_isUnauthorized(resp.status)
       THEN [ ls |-> apiService_removeCurrentUser(apiService_removeToken(ls)),
              nav |-> IF apiService_redirectOn401(path) THEN LoginPath ELSE nav,
              settled |-> "rejected", data |-> NoData,
              redirected |-> apiService_redirectOn401(path),
              error |-> apiService_errorMessage(parsed.data, resp.status) ]
       ELSE [ ls |-> ls, nav |-> nav, settled |-> "rejected", data |-> NoData,
              redirected |-> FALSE,
              error |-> apiService_errorMessage(parsed.data, resp.status) ]
  ELSE [ ls |-> ls, nav |-> nav, settled |-> "resolved", data |-> parsed.data,
         redirected |-> FALSE, error |-> NULL ]

\* (mutant) a body that is not JSON read as an empty object
request_parse_lenient(resp) ==
  [ threw |-> FALSE,
    data |-> IF resp.bodyJson THEN responseJson(resp) ELSE NoData ]

\* raw-token api module: res.json() is called whatever the content type
request_parse(resp) ==
  IF resp.bodyJson
  THEN [ threw |-> FALSE, data |-> responseJson(resp) ]
  ELSE [ threw |-> TRUE, data |-> NoData ]

\* raw-token api module: the message of the Error thrown for a non-2xx response
request_errorMessage(data) ==
  IF Truthy(Field(data, "msg")) THEN Field(data, "msg")
  ELSE IF Truthy(Field(data, "message")) THEN Field(data, "message")
  ELSE "API Error"

\* raw-token api module: the 401 branch is taken
request_isUnauthorized(status) == status = 401

\* raw-token api module: what request does with a response
request(ls, path, nav, resp) ==
  LET parsed == request_parse(resp) IN
  IF parsed.threw
  THEN [ ls |-> ls, nav |-> nav, settled |-> "rejected", data |-> NoData,
         redirected |-> FALSE, error |-> SyntaxError ]
  ELSE IF ~responseOk(resp.status)
  THEN IF request_isUnauthorized(resp.status)
       THEN [ ls |-> clearToken(ls), nav |-> LoginPath,
              settled |-> "rejected", data |-> NoData, redirected |-> TRUE,
              error |-> request_errorMessage(parsed.data) ]
       ELSE [ ls |-> ls, nav |-> nav, settled |-> "rejected", data |-> NoData,
              redirected |-> FALSE,
              error |-> request_errorMessage(parsed.data) ]
  ELSE [ ls |-> ls, nav |-> nav, settled |-> "resolved", data |-> parsed.data,
         redirected |-> FALSE, error |-> NULL ]

\* older raw-token module: the message of the Error thrown for a non-2xx
\* response
legacy_errorMessage(data) ==
  IF Truthy(Field(data, "msg")) THEN Field(data, "msg") ELSE "API Error"

\* older raw-token module: what request does with a response
legacy_request(ls, path, nav, resp) ==
  LET parsed == request_parse(resp) IN
  IF parsed.threw
  THEN [ ls |-> ls, nav |-> nav, settled |-> "rejected", data |-> NoData,
         redirected |-> FALSE, error |-> SyntaxError ]
  ELSE IF ~responseOk(resp.status)
  THEN IF resp.status = 401
       THEN [ ls |-> clearToken(ls), nav |-> LoginPath,
              settled |-> "rejected", data |-> NoData, redirected |-> TRUE,
              error |-> legacy_errorMessage(parsed.data) ]
       ELSE [ ls |-> ls, nav |-> nav, settled |-> "rejected", data |-> NoData,
              redirected |-> FALSE,
              error |-> legacy_errorMessage(parsed.data) ]
  ELSE [ ls |-> ls, nav |-> nav, settled |-> "resolved", data |-> parsed.data,
         redirected |-> FALSE, error |-> NULL ]

\* ------------------------------------------------------- request headers
\* (mutant) on a shared name the first object's property is kept
Spread_firstWins(a, b) == a @@ b

\* object spread { ...a, ...b }: on a shared name b's property is kept
Spread(a, b) == b @@ a

\* an options object without headers
NoHeaders == [ k \in {} |-> NoHeader ]

\* the default the gateways start from
DefaultHeaders == "Content-Type" :> <<"application/json">>

\* (mutant) the header attached unless the token is null
apiService_headers_nullOnly(token, optHeaders) ==
  LET headers == Spread(DefaultHeaders, optHeaders) IN
  IF token # NULL
  THEN Spread(headers, "Authorization" :> <<"Bearer ", token>>)
  ELSE headers

\* js/api.js: the headers of the request, from the stored token and the
\* caller's options.headers
apiService_headers(token, optHeaders) ==
  LET headers == Spread(DefaultHeaders, optHeaders) IN
  IF Truthy(token)
  THEN Spread(headers, "Authorization" :> apiService_authHeader(token))
  ELSE headers

\* raw-token api modules: the headers of the request
request_headers(token, optHeaders) ==
  LET headers == Spread(DefaultHeaders, optHeaders) IN
  IF Truthy(token)
  THEN Spread(headers, "Authorization" :> request_authHeader(token))
  ELSE headers

\* the headers module l builds
Headers(l, ls, optHeaders) ==
  IF l = "api" THEN apiService_headers(apiService_getToken(ls), optHeaders)
  ELSE request_headers(getToken(ls), optHeaders)

\* ------------------------------------------------------------ facade
AuthOps == {"login", "register"}
TaskOps == {"assign", "submit", "approve"}

\* the facade operations the controls of a page call: the login form calls
\* auth.login, the registration form auth.register, Browse Tasks assigns a
\* task, My Tasks submits and approves work
PageOps(name) ==
  CASE name = "login.html" -> {"login"}
    [] name = "register.html" -> {"register"}
    [] name = "browse-tasks.html" -> {"assign"}
    [] name = "my-tasks.html" -> {"submit", "approve"}
    [] OTHER -> {}

\* js/api.js: auth.register / auth.login after the request resolved
apiService_auth_login(ls, data) ==
  IF Truthy(Field(data, "token"))
  THEN LET stored == apiService_setToken(ls, Field(data, "token")) IN
       IF Field(data, "user") # NULL
       THEN apiService_setCurrentUser(stored, Field(data, "user"))
       ELSE stored
  ELSE ls

\* js/api.js: auth.getProfile after the request resolved
apiService_auth_getProfile(ls, data) ==
  apiService_setCurrentUser(ls, IF Field(data, "user") # NULL
                                THEN Field(data, "user") ELSE "body")

\* raw-token api module: auth.register / auth.login after the request resolved
auth_login(ls, data) ==
  IF Truthy(Field(data, "token")) THEN setToken(ls, Field(data, "token"))
  ELSE ls

\* older raw-token module: loginUser after the request resolved
loginUser(ls, data) ==
  IF Truthy(Field(data, "token")) THEN setToken(ls, Field(data, "token"))
  ELSE ls

\* older raw-token module: registerUser returns the request's promise
registerUser(ls, data) == ls

\* the facade operation's own work once its request has resolved
FacadeAfter(l, op, ls, data) ==
  IF l = "api"
  THEN IF op \in AuthOps THEN apiService_auth_login(ls, data)
       ELSE IF op = "getProfile" THEN apiService_auth_getProfile(ls, data)
       ELSE ls
  ELSE IF l = "req"
  THEN IF op \in AuthOps THEN auth_login(ls, data) ELSE ls
  ELSE IF op = "login" THEN loginUser(ls, data)
       ELSE IF op = "register" THEN registerUser(ls, data)
       ELSE ls

\* (mutant) logout forgets the cached user
apiService_auth_logout_tokenOnly(ls) == apiService_removeToken(ls)

\* js/api.js: auth.logout
apiService_auth_logout(ls) ==
  apiService_removeCurrentUser(apiService_removeToken(ls))

\* raw-token api module: auth.logout
auth_logout(ls) == clearToken(ls)

\* the request a facade operation sends: built from the stored token
Request(l, op, origin, ls) ==
  [ op |-> op, origin |-> origin,
    hdr |-> IF l = "api" THEN apiService_authHeader(apiService_getToken(ls))
            ELSE request_authHeader(getToken(ls)) ]

Gateway(l, ls, path, nav, resp) ==
  IF l = "api" THEN apiService_request(ls, path, nav, resp)
  ELSE IF l = "req" THEN request(ls, path, nav, resp)
  ELSE legacy_request(ls, path, nav, resp)

\* ------------------------------------------------------------ events
\* ev describes the step just taken: the action, the facade operation, the
\* response's status, content type and well-formedness, how the caller's promise
\* (or the guard) ended, the token of the parsed body, the request's
\* authorization header, whether the step assigned window.location.href, the
\* number of requests it sent, who awaited the answered request, and whether
\* the step entered the catch block of the dashboard's loadDashboard()
Ev(kind, op, status, settled) ==
  [ kind |-> kind, op |-> op, status |-> status, settled |-> settled,
    ctype |-> NULL, bodyJson |-> FALSE, token |-> NULL, hdr |-> NoHeader,
    redirected |-> FALSE, sent |-> 0, origin |-> NULL, caught |-> FALSE ]

Remove(seq, i) == SubSeq(seq, 1, i - 1) \o SubSeq(seq, i + 1, Len(seq))

\* Promise.all rejects with the first rejection of a member: the members
\* still outstanding are then awaited by a promise that is already rejected
PromiseAll_rejected(reqs) ==
  [ j \in DOMAIN reqs |->
      IF reqs[j].origin = "joint"
      THEN [reqs[j] EXCEPT !.origin = "joint-rejected"] ELSE reqs[j] ]

\* loadDashboard's try block is left for its catch block: an await of
\* getProfile, or of the still pending Promise.all, was rejected
loadDashboard_catches(r, settled) ==
  settled = "rejected" /\ r.origin \in {"script", "joint"}

UserInflight == Cardinality({ i \in DOMAIN inflight : inflight[i].origin = "user" })

\* no facade call is being followed
GwIdle == [ stage |-> "idle" ]
\* no form is being followed
NoForm == [ page |-> NULL ]
\* no component is being followed
NoUi == [ kind |-> NULL ]
\* the site served at the root of its origin
RootSite == <<>>
\* the site served as a project site, under the repository's name
SubSite == <<"/", "workexchange-frontend">>
\* the server has a file of the site for this path
Served(path) ==
  /\ Len(path) >= Len(site)
  /\ SubSeq(path, 1, Len(site)) = site

\* ------------------------------------------------------------ state
\* what the browser's storage may hold when the site is first opened: under
\* each credential key nothing, the empty string or an old token, and a
\* cached user or none
InitStorages ==
  { ls \in [Keys -> {NULL, "", "t0", JSONstringify("u1")}] :
      /\ ls["token"] \in {NULL, "", "t0"}
      /\ ls["auth_token"] \in {NULL, "", "t0"}
      /\ ls["current_user"] \in {NULL, JSONstringify("u1")} }

Init ==
  /\ localStorage \in InitStorages
  /\ pathname = <<"/">>
  /\ href = NoNav
  /\ phase = "guard"
  /\ lib \in Libs
  /\ inflight = <<>>
  /\ session = NULL
  /\ ev = Ev("init", NULL, 0, NULL)
  /\ gw = GwIdle
  /\ form = NoForm
  /\ site = RootSite
  /\ ui = NoUi

\* the user opens a page: a new document, nothing of the old one survives
LoadPage(p) ==
  /\ pathname' = p
  /\ href' = NoNav
  /\ phase' = "guard"
  /\ inflight' = <<>>
  /\ ev' = Ev("LoadPage", NULL, 0, NULL)
  /\ UNCHANGED <<localStorage, lib, session, gw, form, site, ui>>

\* a pending assignment to window.location.href takes effect
Navigate ==
  /\ href # NoNav
  /\ pathname' = Resolve(href, pathname)
  /\ href' = NoNav
  /\ phase' = IF Served(Resolve(href, pathname)) THEN "guard" ELSE "unserved"
  /\ inflight' = <<>>
  /\ ev' = Ev("Navigate", NULL, 0, NULL)
  /\ UNCHANGED <<localStorage, lib, session, gw, form, site, ui>>

\* js/auth-guard.js, the first script of the page
AuthGuard ==
  /\ phase = "guard"
  /\ IF authGuard_blocks(localStorage, pathname)
     THEN /\ href' = LoginPath
          /\ ev' = [Ev("AuthGuard", NULL, 0, "threw") EXCEPT !.redirected = TRUE]
     ELSE /\ href' = href
          /\ ev' = Ev("AuthGuard", NULL, 0, "verified")
  /\ phase' = "script"
  /\ UNCHANGED <<localStorage, pathname, lib, inflight, session, gw, form, site, ui>>

\* raw-token api module: requireAuth() called as the page's guard
RequireAuth ==
  /\ phase = "guard"
  /\ IF requireAuth_blocks(localStorage, pathname)
     THEN /\ href' = LoginPath
          /\ ev' = [Ev("RequireAuth", NULL, 0, "false") EXCEPT !.redirected = TRUE]
     ELSE /\ href' = href
          /\ ev' = Ev("RequireAuth", NULL, 0, "true")
  /\ phase' = "script"
  /\ UNCHANGED <<localStorage, pathname, lib, inflight, session, gw, form, site, ui>>

\* dashboard page script: the token check, then loadDashboard() up to its
\* first await (auth.getProfile has sent its request)
DashboardScript ==
  /\ phase = "script"
  /\ PageName(pathname) = "dashboard.html"
  /\ href' = IF ~Truthy(localStorage["token"]) THEN LoginRelative ELSE href
  /\ inflight' = Append(inflight, Request(lib, "getProfile", "script", localStorage))
  /\ ev' = [Ev("DashboardScript", "getProfile", 0, NULL) EXCEPT
              !.redirected = ~Truthy(localStorage["token"]),
              !.hdr = Request(lib, "getProfile", "script", localStorage).hdr,
              !.sent = 1]
  /\ phase' = "ready"
  /\ UNCHANGED <<localStorage, pathname, lib, session, gw, form, site, ui>>

\* login / register page script: the already-logged-in check
LoginScript ==
  /\ phase = "script"
  /\ PageName(pathname) \in {"login.html", "register.html"}
  /\ href' = IF Truthy(localStorage["token"]) THEN DashboardRelative ELSE href
  /\ ev' = [Ev("LoginScript", NULL, 0, NULL) EXCEPT
              !.redirected = Truthy(localStorage["token"])]
  /\ phase' = "ready"
  /\ UNCHANGED <<localStorage, pathname, lib, inflight, session, gw, form, site, ui>>

\* any other page: its script touches neither storage nor the location
OtherScript ==
  /\ phase = "script"
  /\ PageName(pathname) \notin {"dashboard.html", "login.html", "register.html"}
  /\ phase' = "ready"
  /\ ev' = Ev("OtherScript", NULL, 0, NULL)
  /\ UNCHANGED <<localStorage, pathname, href, lib, inflight, session, gw, form, site, ui>>

\* a user action calls a facade operation: the request is built and sent
Issue(op) ==
  /\ phase = "ready"
  /\ op \in PageOps(PageName(pathname))
  /\ UserInflight < MaxInflight
  /\ inflight' = Append(inflight, Request(lib, op, "user", localStorage))
  /\ ev' = [Ev("Issue", op, 0, NULL) EXCEPT
              !.hdr = Request(lib, op, "user", localStorage).hdr, !.sent = 1]
  /\ UNCHANGED <<localStorage, pathname, href, phase, lib, session, gw, form, site, ui>>

\* the response of request i arrives: the gateway classifies it, the facade
\* operation and its caller continue
Complete(i, resp) ==
  LET r == inflight[i]
      out == Gateway(lib, localStorage, pathname, href, resp)
      more == IF out.settled = "resolved" /\ r.origin = "script" /\ r.op = "getProfile"
              THEN LET ls == FacadeAfter(lib, r.op, out.ls, out.data) IN
                   << Request(lib, "getPosted", "joint", ls),
                      Request(lib, "getAssigned", "joint", ls) >>
              ELSE <<>>
      rest == Remove(inflight, i)
  IN
  /\ localStorage' = IF out.settled = "resolved"
                     THEN FacadeAfter(lib, r.op, out.ls, out.data) ELSE out.ls
  /\ href' = out.nav
  /\ inflight' = IF loadDashboard_catches(r, out.settled)
                 THEN PromiseAll_rejected(rest) ELSE rest \o more
  /\ session' = IF resp.status = 401 THEN NULL
                ELSE IF r.op \in AuthOps /\ out.settled = "resolved"
                        /\ Truthy(Field(out.data, "token"))
                THEN Field(out.data, "token")
                ELSE session
  /\ ev' = [Ev("Complete", r.op, resp.status, out.settled) EXCEPT
              !.ctype = resp.ctype, !.bodyJson = resp.bodyJson,
              !.token = Field(out.data, "token"), !.redirected = out.redirected,
              !.hdr = r.hdr, !.sent = Len(more), !.origin = r.origin,
              !.caught = loadDashboard_catches(r, out.settled)]
  /\ UNCHANGED <<pathname, phase, lib, gw, form, site, ui>>

\* fetch itself rejects: no response at all
NetworkFail(i) ==
  /\ inflight' = IF loadDashboard_catches(inflight[i], "rejected")
                 THEN PromiseAll_rejected(Remove(inflight, i))
                 ELSE Remove(inflight, i)
  /\ ev' = [Ev("NetworkFail", inflight[i].op, 0, "rejected") EXCEPT
              !.origin = inflight[i].origin,
              !.caught = loadDashboard_catches(inflight[i], "rejected")]
  /\ UNCHANGED <<localStorage, pathname, href, phase, lib, session, gw, form, site, ui>>

\* the user logs out
Logout ==
  /\ phase = "ready"
  /\ localStorage' = IF lib = "api" THEN apiService_auth_logout(localStorage)
                     ELSE auth_logout(localStorage)
  /\ href' = LoginPath
  /\ session' = NULL
  /\ ev' = [Ev("Logout", NULL, 0, NULL) EXCEPT !.redirected = TRUE]
  /\ UNCHANGED <<pathname, phase, lib, inflight, gw, form, site, ui>>

Next ==
  \/ \E p \in Pages : LoadPage(p)
  \/ Navigate
  \/ AuthGuard
  \/ RequireAuth
  \/ DashboardScript
  \/ LoginScript
  \/ OtherScript
  \/ \E op \in AuthOps \cup TaskOps : Issue(op)
  \/ \E i \in DOMAIN inflight : \E resp \in Responses : Complete(i, resp)
  \/ \E i \in DOMAIN inflight : NetworkFail(i)
  \/ Logout

Spec == Init /\ [][Next]_vars

\* ================================= automatic navigation, no user input
\* the user opens one page of the site, served at the root or as a project
\* site; from then on only the page's scripts, the network and the browser's
\* navigation act
NavInit ==
  /\ localStorage \in InitStorages
  /\ site \in {RootSite, SubSite}
  /\ pathname \in { site \o p : p \in Pages }
  /\ href = NoNav
  /\ phase = "guard"
  /\ lib \in Libs
  /\ inflight = <<>>
  /\ session = NULL
  /\ ev = Ev("init", NULL, 0, NULL)
  /\ gw = GwIdle
  /\ form = NoForm
  /\ ui = NoUi

NavNext ==
  \/ Navigate
  \/ AuthGuard
  \/ RequireAuth
  \/ DashboardScript
  \/ LoginScript
  \/ OtherScript
  \/ \E i \in DOMAIN inflight : \E resp \in Responses : Complete(i, resp)
  \/ \E i \in DOMAIN inflight : NetworkFail(i)

\* the browser runs every script of a loaded page, performs a pending
\* navigation, and every request is answered or fails
NavSpec == NavInit /\ [][NavNext]_vars /\ WF_vars(NavNext)

\* ===================================== a second document of the same site
\* localStorage is shared by every document of the origin: in another tab
\* the login page's call succeeds and auth.login stores the new credential
OtherTabLogin(token) ==
  /\ localStorage' = FacadeAfter(lib, "login", localStorage,
                                 [ token |-> token, user |-> "u1" ])
  /\ session' = token
  /\ ev' = [Ev("OtherTabLogin", "login", 200, "resolved") EXCEPT
              !.token = token]
  /\ UNCHANGED <<pathname, href, phase, lib, inflight, gw, form, site, ui>>

TabsNext ==
  \/ NavNext
  \/ \E token \in ServerTokens : OtherTabLogin(token)

TabsSpec == NavInit /\ [][TabsNext]_vars

\* ============================================= one facade call, end to end
\* the properties of a payload that hold numbers
NumberKeys == {"coins"}

\* the objects the callers pass to the facade operations
Payloads(op) ==
  CASE op = "login" -> { [ email |-> "a@b.co", password |-> "secret" ] }
    [] op = "register" ->
         { [ name |-> "Al", email |-> "a@b.co", password |-> "secret" ] }
    [] op = "create" ->
         { [ title |-> "Fix bug", description |-> "Found in homepage",
             coins |-> c ] : c \in 1..MaxCoins }
    [] OTHER -> { NoData }

GwOps == {"login", "register", "getProfile", "create"}

\* JSON.stringify of a payload: the JSON text, property by property, a number
\* as its numeral and a string quoted
JSONstringify_body(payload) ==
  [ k \in DOMAIN payload |->
      IF k \in NumberKeys THEN <<"number", ToString(payload[k])>>
      ELSE <<"string", payload[k]>> ]

\* JSON.parse of such a text
JSONparse(text) ==
  [ k \in DOMAIN text |->
      IF text[k][1] = "number"
      THEN CHOOSE n \in 0..(MaxCoins + 1) : ToString(n) = text[k][2]
      ELSE text[k][2] ]

\* the headers a caller may pass in options.headers
CallerHeaders ==
  { NoHeaders,
    "Authorization" :> <<"Basic ", "abc">>,
    "Content-Type" :> <<"text/plain">>,
    "X-Request-Id" :> <<"7">> }

\* error bodies: each of message, error and msg present or not
MessageBodies ==
  [ message : {NULL, "", "bad request"}, error : {NULL, "denied"},
    msg : {NULL, "nope"} ]

\* the responses a server may give to a request with the given body
GwResponses(body) ==
  { r \in [ status : Statuses, ctype : JsonContentTypes \cup {"text/html", NULL},
            bodyJson : BOOLEAN,
            json : AuthBodies \cup MessageBodies \cup {JSONparse(body), NoData},
            text : {NULL, "", "oops"} ] :
      /\ r.bodyJson => r.text = NULL
      /\ ~r.bodyJson => (r.json = NoData /\ r.text # NULL) }

\* what the storage may hold when the call is made
GwInitStorages == { ls \in InitStorages : ls["token"] = ls["auth_token"] }

GwInit ==
  /\ localStorage \in GwInitStorages
  /\ pathname \in { <<"/", "login.html">>,
                     <<"/", "pages", "/", "dashboard.html">> }
  /\ href = NoNav
  /\ lib \in Modules
  /\ gw = GwIdle
  /\ site = RootSite
  /\ ui = NoUi
  /\ phase = "ready"
  /\ inflight = <<>>
  /\ session = NULL
  /\ ev = Ev("init", NULL, 0, NULL)
  /\ form = NoForm

\* a caller calls a facade operation: the gateway builds the request from
\* the stored token and the caller's options, and sends it
GwCall(op, payload, optHeaders) ==
  /\ gw.stage = "idle"
  /\ payload \in Payloads(op)
  /\ gw' = [ stage |-> "sent", op |-> op, payload |-> payload,
             options |-> optHeaders,
             headers |-> Headers(lib, localStorage, optHeaders),
             body |-> JSONstringify_body(payload) ]
  /\ UNCHANGED <<localStorage, pathname, href, phase, lib, inflight, session,
                 ev, form, site, ui>>

\* the response arrives: the gateway parses and classifies it
GwRespond ==
  /\ gw.stage = "sent"
  /\ \E resp \in GwResponses(gw.body) :
       LET out == Gateway(lib, localStorage, pathname, href, resp) IN
       /\ localStorage' = out.ls
       /\ href' = out.nav
       /\ gw' = [ stage |-> "settled", op |-> gw.op, payload |-> gw.payload,
                  resp |-> resp, settled |-> out.settled, data |-> out.data,
                  error |-> out.error ]
  /\ UNCHANGED <<pathname, phase, lib, inflight, session, ev, form, site, ui>>

\* the message of the TypeError fetch rejects with
FetchError == "TypeError: Failed to fetch"

\* fetch itself rejects: the gateway's await throws, nothing after it runs
GwNetworkFail ==
  /\ gw.stage = "sent"
  /\ gw' = [ stage |-> "failed", op |-> gw.op, payload |-> gw.payload,
             settled |-> "rejected", error |-> FetchError ]
  /\ UNCHANGED <<localStorage, pathname, href, phase, lib, inflight, session,
                 ev, form, site, ui>>

\* the facade operation continues after the gateway and returns to its caller
GwReturn ==
  /\ gw.stage = "settled"
  /\ localStorage' = IF gw.settled = "resolved"
                     THEN FacadeAfter(lib, gw.op, localStorage, gw.data)
                     ELSE localStorage
  /\ gw' = [gw EXCEPT !.stage = "returned"]
  /\ UNCHANGED <<pathname, href, phase, lib, inflight, session, ev, form, site, ui>>

\* the caller is done with the call
GwDone ==
  /\ gw.stage \in {"returned", "failed"}
  /\ gw' = GwIdle
  /\ href' = NoNav
  /\ UNCHANGED <<localStorage, pathname, phase, lib, inflight, session, ev,
                 form, site, ui>>

GwNext ==
  \/ \E op \in GwOps : \E payload \in Payloads(op) :
       \E optHeaders \in CallerHeaders : GwCall(op, payload, optHeaders)
  \/ GwRespond
  \/ GwNetworkFail
  \/ GwReturn
  \/ GwDone

GatewaySpec == GwInit /\ [][GwNext]_vars

\* ===================================================== the pages' forms
\* A field's value is the sequence of its characters.
Whitespace == {" "}
Digits == {"0", "1", "2", "3", "4", "5", "6", "7", "8", "9"}

RECURSIVE trimStart(_)
trimStart(str) ==
  IF str # <<>> /\ Head(str) \in Whitespace THEN trimStart(Tail(str)) ELSE str

RECURSIVE trimEnd(_)
trimEnd(str) ==
  IF str # <<>> /\ str[Len(str)] \in Whitespace
  THEN trimEnd(SubSeq(str, 1, Len(str) - 1)) ELSE str

\* String.prototype.trim
trim(str) == trimEnd(trimStart(str))

DigitValue(c) ==
  CASE c = "0" -> 0 [] c = "1" -> 1 [] c = "2" -> 2 [] c = "3" -> 3
    [] c = "4" -> 4 [] c = "5" -> 5 [] c = "6" -> 6 [] c = "7" -> 7
    [] c = "8" -> 8 [] c = "9" -> 9

\* the value of the longest prefix of digits, after the digits read so far
RECURSIVE leadingDigits(_, _)
leadingDigits(str, acc) ==
  IF str # <<>> /\ Head(str) \in Digits
  THEN leadingDigits(Tail(str), 10 * acc + DigitValue(Head(str)))
  ELSE acc

\* parseInt(str): leading white space skipped, an optional sign, then the
\* longest prefix of digits; NaN when there is no digit there
parseInt(str) ==
  LET t == trimStart(str)
      negative == t # <<>> /\ Head(t) = "-"
      signed == t # <<>> /\ Head(t) \in {"-", "+"}
      rest == IF signed THEN Tail(t) ELSE t
  IN IF rest = <<>> \/ Head(rest) \notin Digits
     THEN [ nan |-> TRUE, value |-> 0 ]
     ELSE [ nan |-> FALSE,
            value |-> IF negative THEN 0 - leadingDigits(rest, 0)
                      ELSE leadingDigits(rest, 0) ]

\* isValidEmail: /^[^\s@]+@[^\s@]+\.[^\s@]+$/
isValidEmail(email) ==
  \E at \in 2..Len(email) :
    /\ email[at] = "@"
    /\ \A i \in (1..Len(email)) \ {at} :
         email[i] \notin Whitespace /\ email[i] # "@"
    /\ \E dot \in (at + 2)..(Len(email) - 1) : email[dot] = "."

\* validatePassword(password).isValid
validatePassword(password) == ~(password = <<>> \/ Len(password) < 6)

\* what the user may have typed into the fields
Titles ==
  { <<" ", " ">>, <<" ", "F", "i", "x", "e", " ">>,
    <<"F", "i", "x", "e", "s">> }
Descriptions ==
  { <<>>, <<" ", "F", "o", "u", "n", "d", " ", "i", "t", " ">>,
    <<"F", "o", "u", "n", "d", " ", "i", "t", " ", "!">> }
\* the coins field: blank, text that is no number, or a numeral
CoinsValues ==
  { <<>>, <<"a", "b", "c">>, <<"0">>, <<"-", "3">>, <<"0", ".", "5">> }
    \cup { <<c>> : c \in {"1", "2", "3"} }
Emails ==
  { <<>>, <<" ", "a", "@", "b", ".", "c", "o", " ">>,
    <<"a", "b", ".", "c", "o">>, <<"a", "@", "b", "c", "o">>,
    <<"a", " ", "@", "b", ".", "c", "o">> }
Passwords ==
  { <<>>, <<" ">>, <<"1", "2", "3", "4", "5">>, <<"1", "2", "3", "4", "5", "6">> }
Names ==
  { <<>>, <<"A">>, <<" ", "A", " ">>, <<"A", "l">> }

FormPages == {"login", "register", "create-task"}

\* the fields of each page's form
Fields(page) ==
  CASE page = "login" -> [ email : Emails, password : Passwords ]
    [] page = "register" ->
         [ name : Names, email : Emails, password : Passwords ]
    [] page = "create-task" ->
         [ title : Titles, description : Descriptions, coins : CoinsValues ]

\* the facade operation each form calls
FormOp(page) ==
  CASE page = "login" -> "login" [] page = "register" -> "register"
    [] page = "create-task" -> "create"

FormPath(page) ==
  CASE page = "login" -> <<"/", "pages", "/", "login.html">>
    [] page = "register" -> <<"/", "pages", "/", "register.html">>
    [] page = "create-task" -> <<"/", "pages", "/", "create-task.html">>

\* login page: hasError after the submit handler's validation
loginForm_hasError(fields) ==
  LET email == trim(fields.email) IN
  \/ email = <<>>
  \/ ~isValidEmail(email)
  \/ fields.password = <<>>

\* register page: hasError after the submit handler's validation
registerForm_hasError(fields) ==
  LET name == trim(fields.name)
      email == trim(fields.email)
  IN
  \/ name = <<>> \/ Len(name) < 2
  \/ email = <<>> \/ ~isValidEmail(email)
  \/ fields.password = <<>> \/ ~validatePassword(fields.password)

\* the answers the forms' calls get
FormResponses ==
  { r \in Responses :
      r.ctype = "application/json" /\ r.status \in {200, 401, 500} }

\* what the storage may hold when a form page is open
FormInitStorages ==
  { ls \in GwInitStorages :
      ls["token"] \in {NULL, "t0"} /\ ls["current_user"] = NULL }

\* the page's currentUser before loadUserProfile has set it
NoCurrentUser == [ set |-> FALSE, hasCoins |-> FALSE, coins |-> 0 ]

\* (mutant) the title accepted from one character on
createTaskForm_titleError_nonEmpty(title) == title = <<>>

\* create-task page: the title is in error
createTaskForm_titleError(title) == title = <<>> \/ Len(title) < 5

\* create-task page: the coins field is in error; comparing with an
\* undefined currentUser.coins is false
createTaskForm_coinsError(coins, currentUser) ==
  IF coins.nan \/ coins.value = 0 THEN TRUE
  ELSE IF coins.value < 1 THEN TRUE
  ELSE currentUser.set /\ currentUser.hasCoins
         /\ coins.value > currentUser.coins

\* create-task page: hasError after the submit handler's validation
createTaskForm_hasError(fields, currentUser) ==
  LET title == trim(fields.title)
      description == trim(fields.description)
      coins == parseInt(fields.coins)
  IN
  \/ createTaskForm_titleError(title)
  \/ description = <<>> \/ Len(description) < 10
  \/ createTaskForm_coinsError(coins, currentUser)

hasError(page, fields, currentUser) ==
  CASE page = "login" -> loginForm_hasError(fields)
    [] page = "register" -> registerForm_hasError(fields)
    [] page = "create-task" -> createTaskForm_hasError(fields, currentUser)

\* (mutant) the loading state shown without disabling the button
showLoading_enabled(f) == f

\* the text the submit button of a form shows before any submit
ButtonLabel(page) ==
  CASE page = "login" -> "Login"
    [] page = "register" -> "Create Account"
    [] page = "create-task" -> "Create Task"

LoadingLabel == "Loading..."

\* showLoading(submitBtn): disable, remember the label, show the loading text
showLoading(f) ==
  [f EXCEPT !.disabled = TRUE, !.originalText = f.label,
            !.label = LoadingLabel]

\* (mutant) the button is enabled again but keeps the loading text
hideLoading_keepsText(f) == [f EXCEPT !.disabled = FALSE]

\* hideLoading(submitBtn): enable, put the remembered label back
hideLoading(f) == [f EXCEPT !.disabled = FALSE, !.label = f.originalText]

\* the number the create-task form sends as coins
SentCoins(page, fields) ==
  IF page = "create-task" THEN parseInt(fields.coins).value ELSE 0

\* currentUser = profileResponse.user || profileResponse: the user record
\* carries the balance, any other body has no coins property
loadedUser(data, balance) ==
  IF Field(data, "user") # NULL
  THEN [ set |-> TRUE, hasCoins |-> TRUE, coins |-> balance ]
  ELSE [ set |-> TRUE, hasCoins |-> FALSE, coins |-> 0 ]

FormInit ==
  /\ localStorage \in FormInitStorages
  /\ lib \in Libs
  /\ href = NoNav
  /\ \E page \in FormPages : \E balance \in 0..MaxCoins :
       /\ pathname = FormPath(page)
       /\ form = [ page |-> page, fields |-> NoData, last |-> "none",
                   disabled |-> FALSE, label |-> ButtonLabel(page),
                   originalText |-> NULL,
                   outstanding |-> 0, sentCoins |-> 0,
                   timer |-> FALSE, balance |-> balance,
                   currentUser |-> NoCurrentUser,
                   profile |-> IF page = "create-task" THEN "pending"
                               ELSE "none" ]
  /\ gw = GwIdle
  /\ site = RootSite
  /\ ui = NoUi
  /\ phase = "ready"
  /\ inflight = <<>>
  /\ session = NULL
  /\ ev = Ev("init", NULL, 0, NULL)

\* the user submits the form; a disabled submit button submits nothing
FormSubmit(fields) ==
  /\ ~form.disabled
  /\ form.outstanding < MaxSubmits
  /\ fields \in Fields(form.page)
  /\ IF hasError(form.page, fields, form.currentUser)
     THEN /\ form' = [form EXCEPT !.fields = fields, !.last = "invalid"]
          /\ ev' = Ev("FormSubmit", FormOp(form.page), 0, "invalid")
     ELSE /\ form' = [showLoading(form) EXCEPT
                        !.fields = fields, !.last = "sent",
                        !.outstanding = @ + 1,
                        !.sentCoins = SentCoins(form.page, fields)]
          /\ ev' = [Ev("FormSubmit", FormOp(form.page), 0, "sent") EXCEPT
                      !.sent = 1]
  /\ UNCHANGED <<localStorage, pathname, href, phase, lib, inflight, session,
                 gw, site, ui>>

\* the form's call is answered: the gateway and the facade operation finish,
\* the handler continues after its await
FormSettle(resp) ==
  LET out == Gateway(lib, localStorage, pathname, href, resp) IN
  /\ form.outstanding > 0
  /\ href' = out.nav
  /\ IF out.settled = "resolved"
     THEN /\ localStorage' = FacadeAfter(lib, FormOp(form.page), out.ls, out.data)
          /\ form' = [form EXCEPT !.outstanding = @ - 1, !.timer = TRUE]
     ELSE /\ localStorage' = out.ls
          /\ form' = [hideLoading(form) EXCEPT !.outstanding = @ - 1]
  /\ ev' = [Ev("FormSettle", FormOp(form.page), resp.status, out.settled)
              EXCEPT !.redirected = out.redirected]
  /\ UNCHANGED <<pathname, phase, lib, inflight, session, gw, site, ui>>

\* the form's call fails in fetch
FormNetworkFail ==
  /\ form.outstanding > 0
  /\ form' = [hideLoading(form) EXCEPT !.outstanding = @ - 1]
  /\ ev' = Ev("FormNetworkFail", FormOp(form.page), 0, "rejected")
  /\ UNCHANGED <<localStorage, pathname, href, phase, lib, inflight, session,
                 gw, site, ui>>

\* the timer set after a successful call fires
FormTimer ==
  /\ form.timer
  /\ href' = DashboardRelative
  /\ form' = [form EXCEPT !.timer = FALSE]
  /\ ev' = [Ev("FormTimer", NULL, 0, NULL) EXCEPT !.redirected = TRUE]
  /\ UNCHANGED <<localStorage, pathname, phase, lib, inflight, session, gw, site, ui>>

\* create-task page: loadUserProfile() continues after auth.getProfile
ProfileSettle(resp) ==
  LET out == Gateway(lib, localStorage, pathname, href, resp) IN
  /\ form.profile = "pending"
  /\ href' = out.nav
  /\ IF out.settled = "resolved"
     THEN /\ localStorage' = FacadeAfter(lib, "getProfile", out.ls, out.data)
          /\ form' = [form EXCEPT !.profile = "loaded",
                        !.currentUser = loadedUser(out.data, form.balance)]
     ELSE /\ localStorage' = out.ls
          /\ form' = [form EXCEPT !.profile = "failed"]
  /\ ev' = [Ev("ProfileSettle", "getProfile", resp.status, out.settled)
              EXCEPT !.redirected = out.redirected]
  /\ UNCHANGED <<pathname, phase, lib, inflight, session, gw, site, ui>>

FormNext ==
  \/ \E fields \in Fields(form.page) : FormSubmit(fields)
  \/ \E resp \in FormResponses : FormSettle(resp)
  \/ FormNetworkFail
  \/ FormTimer
  \/ \E resp \in FormResponses : ProfileSettle(resp)

FormSpec == FormInit /\ [][FormNext]_vars

\* ================================================== the modal dialog
\* js/components.js: modal.show and modal.confirm. ui holds one modal: how
\* it was created, whether its backdrop is in the document, the body's
\* overflow style, the close timers not yet fired, whether the Escape
\* listener is still registered, the calls of onClose and of closeModal so
\* far, the confirm promise, and whether a second modal has been shown

\* closeModal calls the model follows for one modal
MaxCloses == 3

\* closeModal(): the body scrolls again, the removal is scheduled
closeModal(u) ==
  [u EXCEPT !.overflow = "", !.timers = @ + 1, !.closes = @ + 1]

\* resolve(value) of the confirm promise: a settled promise stays as it is
resolve(u, value) ==
  [u EXCEPT !.promise = IF @ = "pending" THEN value ELSE @]

\* a modal right after modal.show(options) or modal.confirm(options)
ShownModals ==
  { [ kind |-> "modal", confirm |-> c, onClose |-> oc, closeOnBackdrop |-> cb,
      attached |-> TRUE, overflow |-> "hidden", timers |-> 0,
      escListener |-> TRUE, onCloseCalls |-> 0, closes |-> 0,
      promise |-> IF c THEN "pending" ELSE "none", other |-> FALSE ] :
      c \in BOOLEAN, oc \in BOOLEAN, cb \in BOOLEAN }

ModalInit ==
  /\ ui \in { u \in ShownModals :
                u.confirm => (~u.onClose /\ ~u.closeOnBackdrop) }
  /\ localStorage = [ k \in Keys |-> NULL ]
  /\ pathname = <<"/", "pages", "/", "dashboard.html">>
  /\ href = NoNav
  /\ phase = "ready"
  /\ lib = "api"
  /\ inflight = <<>>
  /\ session = NULL
  /\ ev = Ev("init", NULL, 0, NULL)
  /\ gw = GwIdle
  /\ form = NoForm
  /\ site = RootSite

\* a click on the header's close button, while it is in the document
ModalClickClose ==
  /\ ui.attached /\ ui.closes < MaxCloses
  /\ ui' = closeModal(ui)
  /\ ev' = Ev("ModalClickClose", NULL, 0, NULL)
  /\ UNCHANGED <<localStorage, pathname, href, phase, lib, inflight, session,
                 gw, form, site>>

\* a click on the backdrop itself
ModalClickBackdrop ==
  /\ ui.attached /\ ui.closeOnBackdrop /\ ui.closes < MaxCloses
  /\ ui' = closeModal(ui)
  /\ ev' = Ev("ModalClickBackdrop", NULL, 0, NULL)
  /\ UNCHANGED <<localStorage, pathname, href, phase, lib, inflight, session,
                 gw, form, site>>

\* the Escape key: escHandler is registered on the document and removes
\* itself after its first Escape
ModalEscape ==
  /\ ui.escListener /\ ui.closes < MaxCloses
  /\ ui' = [closeModal(ui) EXCEPT !.escListener = FALSE]
  /\ ev' = Ev("ModalEscape", NULL, 0, NULL)
  /\ UNCHANGED <<localStorage, pathname, href, phase, lib, inflight, session,
                 gw, form, site>>

\* the caller of modal.show calls close() of the returned handle;
\* modal.confirm keeps the handle to itself
ModalClose ==
  /\ ~ui.confirm /\ ui.closes < MaxCloses
  /\ ui' = closeModal(ui)
  /\ ev' = Ev("ModalClose", NULL, 0, NULL)
  /\ UNCHANGED <<localStorage, pathname, href, phase, lib, inflight, session,
                 gw, form, site>>

\* a click on a footer button of a confirmation modal
ModalConfirmClick(action) ==
  /\ ui.confirm /\ ui.attached /\ ui.closes < MaxCloses
  /\ ui' = closeModal(resolve(ui, IF action = "confirm" THEN "true"
                                                       ELSE "false"))
  /\ ev' = Ev("ModalConfirmClick", action, 0, NULL)
  /\ UNCHANGED <<localStorage, pathname, href, phase, lib, inflight, session,
                 gw, form, site>>

\* a timer set by closeModal fires: the backdrop is removed if it still is
\* in the document, onClose is called if one was given
ModalTimer ==
  /\ ui.timers > 0
  /\ ui' = [ui EXCEPT !.timers = @ - 1, !.attached = FALSE,
                      !.onCloseCalls = IF ui.onClose THEN @ + 1 ELSE @]
  /\ ev' = Ev("ModalTimer", NULL, 0, NULL)
  /\ UNCHANGED <<localStorage, pathname, href, phase, lib, inflight, session,
                 gw, form, site>>

\* the page shows a second modal: modal.show locks the body's scroll again
ModalShowOther ==
  /\ ~ui.other
  /\ ui' = [ui EXCEPT !.other = TRUE, !.overflow = "hidden"]
  /\ ev' = Ev("ModalShowOther", NULL, 0, NULL)
  /\ UNCHANGED <<localStorage, pathname, href, phase, lib, inflight, session,
                 gw, form, site>>

ModalNext ==
  \/ ModalClickClose
  \/ ModalClickBackdrop
  \/ ModalEscape
  \/ ModalClose
  \/ \E action \in {"confirm", "cancel"} : ModalConfirmClick(action)
  \/ ModalTimer
  \/ ModalShowOther

ModalSpec == ModalInit /\ [][ModalNext]_vars

\* ============================================ the debounced function
\* js/utils.js: debounce(func, wait). ui holds one debounced function: its
\* wait, the clock, the browser's pending timers (id, due time, the args
\* their callback closes over), the closure's timeout variable, the calls
\* made so far with the time and args of the latest, and the invocations of
\* func so far with the time and args of the latest and their number since
\* the latest call

\* the largest wait, the last tick of the clock, the calls followed
MaxWait == 2
MaxTime == 5
MaxCalls == 3

\* the argument lists the debounced function is called with
DebounceArgs == {"a", "b"}

\* (mutant) clearTimeout that cancels nothing
clearTimeout_noop(timers, id) == timers

\* clearTimeout(id): the timer with this id, if still pending, is cancelled
clearTimeout(timers, id) == { t \in timers : t.id # id }

\* setTimeout(later, wait) called at time now by the call numbered id
setTimeout(timers, id, now, wait, args) ==
  timers \cup { [ id |-> id, due |-> now + wait, args |-> args ] }

DebounceInit ==
  /\ \E wait \in 1..MaxWait :
       ui = [ kind |-> "debounce", wait |-> wait, now |-> 0, timers |-> {},
              timeout |-> 0, calls |-> 0, lastCall |-> 0, lastArgs |-> NULL,
              invocations |-> 0, lastInvoked |-> 0, invokedArgs |-> NULL,
              sinceCall |-> 0 ]
  /\ localStorage = [ k \in Keys |-> NULL ]
  /\ pathname = <<"/", "pages", "/", "browse-tasks.html">>
  /\ href = NoNav
  /\ phase = "ready"
  /\ lib = "api"
  /\ inflight = <<>>
  /\ session = NULL
  /\ ev = Ev("init", NULL, 0, NULL)
  /\ gw = GwIdle
  /\ form = NoForm
  /\ site = RootSite

\* executedFunction(...args): the pending timer is cleared, a new one set
DebounceCall(args) ==
  /\ ui.calls < MaxCalls
  /\ ui' = [ui EXCEPT
              !.timers = setTimeout(clearTimeout(ui.timers, ui.timeout),
                                    ui.calls + 1, ui.now, ui.wait, args),
              !.timeout = ui.calls + 1,
              !.calls = @ + 1, !.lastCall = ui.now, !.lastArgs = args,
              !.sinceCall = 0]
  /\ ev' = Ev("DebounceCall", args, 0, NULL)
  /\ UNCHANGED <<localStorage, pathname, href, phase, lib, inflight, session,
                 gw, form, site>>

\* a timer that is due fires and runs later(): clearTimeout(timeout), then
\* func with the args of the call that set the timer
DebounceFire(t) ==
  /\ t \in ui.timers /\ t.due <= ui.now
  /\ ui' = [ui EXCEPT
              !.timers = clearTimeout(ui.timers \ {t}, ui.timeout),
              !.invocations = @ + 1, !.lastInvoked = ui.now,
              !.invokedArgs = t.args, !.sinceCall = @ + 1]
  /\ ev' = Ev("DebounceFire", t.args, 0, NULL)
  /\ UNCHANGED <<localStorage, pathname, href, phase, lib, inflight, session,
                 gw, form, site>>

\* a millisecond passes; a due timer may fire late
DebounceTick ==
  /\ ui.now < MaxTime
  /\ ui' = [ui EXCEPT !.now = @ + 1]
  /\ ev' = Ev("DebounceTick", NULL, 0, NULL)
  /\ UNCHANGED <<localStorage, pathname, href, phase, lib, inflight, session,
                 gw, form, site>>

DebounceNext ==
  \/ \E args \in DebounceArgs : DebounceCall(args)
  \/ \E t \in ui.timers : DebounceFire(t)
  \/ DebounceTick

DebounceSpec == DebounceInit /\ [][DebounceNext]_vars

\* ================================================================ claims
\* the header a request carries for token t under the shipped api module
HeaderFor(t) == IF lib = "api" THEN <<"Bearer ", t>> ELSE <<t>>

\* the public allow-list as the site serves it: login page, registration
\* page, index page and site root
PublicPaths ==
  { <<"/">>, <<"/", "index.html">>, <<"/", "login.html">>,
    <<"/", "register.html">>, <<"/", "pages", "/", "login.html">>,
    <<"/", "pages", "/", "register.html">> }

\* a path that matches none of '/login.html', '/register.html',
\* '/index.html', '/': it neither ends in "/" nor names one of the three files
MatchesNoPublicEntry(path) ==
  PageName(path) \notin {"/", "login.html", "register.html", "index.html"}

\* C1: after a gateway call whose response had status 401 the gateway's
\* credential is absent and the caller was rejected, whatever the content
\* type and body of the response.
C1_Unauthorized_ClearsCredential ==
  (ev.kind = "Complete" /\ ev.status = 401) =>
    (~Truthy(LibToken(lib, localStorage)) /\ ev.settled = "rejected")

\* C2: when the session guard has run with no credential stored (absent or
\* empty string) on a path matching no public entry, the navigation target is
\* the login page and the guard threw (its last statement did not run).
C2_Guard_Blocks ==
  (ev.kind = "AuthGuard" /\ ~Truthy(localStorage["token"])
     /\ MatchesNoPublicEntry(pathname)) =>
    (href = LoginPath /\ ev.settled = "threw")

C2_Witness ==
  /\ ev.kind = "AuthGuard"
  /\ localStorage["token"] = ""
  /\ pathname = <<"/", "pages", "/", "dashboard.html">>
  /\ ev.settled = "threw"
  /\ href = LoginPath

\* C3: while a session opened by a successful login or registration through
\* the facade is live, the session guard passes every load of a protected page.
C3_Guard_Passes_After_Login ==
  (ev.kind = "AuthGuard" /\ session # NULL /\ MatchesNoPublicEntry(pathname)) =>
    (ev.settled = "verified" /\ href = NoNav)

\* C4: the dashboard script, run on a load with no credential stored, sends
\* no API request.
C4_No_Request_Without_Credential ==
  (ev.kind = "DashboardScript" /\ ~Truthy(localStorage["token"])) =>
    (ev.sent = 0 /\ inflight = <<>>)

\* C5: on every path of the public allow-list neither guard redirects or
\* throws, whether a credential is stored or not.
C5_Guard_Public_Never_Redirects ==
  (ev.kind \in {"AuthGuard", "RequireAuth"} /\ pathname \in PublicPaths) =>
    (href = NoNav /\ ~ev.redirected /\ ev.settled \in {"verified", "true"})

C5_Witness ==
  /\ ev.kind = "AuthGuard"
  /\ pathname = <<"/", "pages", "/", "login.html">>
  /\ localStorage["token"] = NULL
  /\ ev.settled = "verified"

\* C6: a getProfile request sent while the session opened by a login that
\* resolved with token t is live carries the authorization header built from t.
C6_Profile_Uses_Login_Token ==
  (ev.kind = "DashboardScript" /\ ev.op = "getProfile" /\ session # NULL) =>
    (ev.hdr = HeaderFor(session) /\ inflight[Len(inflight)].hdr = HeaderFor(session))

C6_Witness ==
  /\ ev.kind = "DashboardScript"
  /\ lib = "api"
  /\ session = "t1"
  /\ inflight[Len(inflight)] =
       [ op |-> "getProfile", origin |-> "script", hdr |-> <<"Bearer ", "t1">> ]

C8_Task_Op_Without_Credential ==
  /\ (ev.kind = "Issue" /\ ev.op \in TaskOps) => ev.sent = 1
  /\ (ev.kind = "Complete" /\ ev.op \in TaskOps /\ ev.hdr = NoHeader
        /\ ev.status = 401 /\ ev.bodyJson) =>
       (localStorage["current_user"] = NULL /\ href = LoginPath)

\* C9: a 401 answered while the login or registration page, as served under
\* /pages/, is shown triggers no redirect: the step assigns no navigation
\* target.
C9_No_Redirect_On_Public_Page ==
  (ev.kind = "Complete" /\ ev.status = 401
     /\ pathname \in { <<"/", "pages", "/", "login.html">>,
                       <<"/", "pages", "/", "register.html">> }) =>
    (~ev.redirected /\ href = NoNav)

\* C10: a response with a non-2xx status other than 401 rejects the caller
\* and changes neither the storage nor the navigation target.
C10_Other_Errors_Keep_Credential ==
  [][ (ev'.kind = "Complete" /\ ~(ev'.status \in 200..299) /\ ev'.status # 401) =>
        /\ ev'.settled = "rejected"
        /\ localStorage' = localStorage
        /\ href' = href ]_vars

C10_Witness ==
  /\ ev.kind = "Complete"
  /\ ev.status = 500
  /\ ev.settled = "rejected"
  /\ Truthy(LibToken(lib, localStorage))
  /\ localStorage["current_user"] # NULL
  /\ href = NoNav

\* the credential module lib holds, read from the current storage
StoredToken == LibToken(lib, localStorage)

\* C11: when auth.login or auth.register returns a resolved response, a
\* token carried by the response is the stored credential (and, where the
\* module caches the user, the response's user record is cached); with no
\* token in the response the operation left the storage as it was.
C11_Auth_Stores_Token ==
  [][ (gw.stage = "settled" /\ gw'.stage = "returned" /\ gw.op \in AuthOps
         /\ gw.settled = "resolved") =>
        IF Truthy(Field(gw.data, "token"))
        THEN /\ LibToken(lib, localStorage') = Field(gw.data, "token")
             /\ (lib = "api" /\ Field(gw.data, "user") # NULL) =>
                  localStorage'["current_user"] =
                    JSONstringify(Field(gw.data, "user"))
        ELSE localStorage' = localStorage ]_vars

\* C12 (as claimed): the request sent carries an Authorization header exactly
\* when a non-empty credential is stored, and the header's value is built from
\* that credential.
C12_Header_Iff_Credential ==
  gw.stage = "sent" =>
    /\ ("Authorization" \in DOMAIN gw.headers) <=> Truthy(StoredToken)
    /\ ("Authorization" \in DOMAIN gw.headers) =>
         gw.headers["Authorization"] = HeaderFor(StoredToken)

\* C12 (amended): when the caller passes no Authorization header of its own,
\* the request carries one exactly when a non-empty credential is stored; and
\* whenever a non-empty credential is stored the header's value is built from
\* it, whatever the caller passed.
C12_Header_Iff_Credential_Amended ==
  gw.stage = "sent" =>
    /\ ("Authorization" \notin DOMAIN gw.options) =>
         (("Authorization" \in DOMAIN gw.headers) <=> Truthy(StoredToken))
    /\ Truthy(StoredToken) =>
         /\ "Authorization" \in DOMAIN gw.headers
         /\ gw.headers["Authorization"] = HeaderFor(StoredToken)

C12_Witness ==
  /\ gw.stage = "sent"
  /\ lib = "api"
  /\ StoredToken = "t0"
  /\ "Authorization" \in DOMAIN gw.options
  /\ gw.headers["Authorization"] = <<"Bearer ", "t0">>

\* C13: the Authorization header of a request sent with credential t is the
\* one value every request implementation of the repository builds for t.
C13_One_Header_Format ==
  (gw.stage = "sent" /\ Truthy(StoredToken)) =>
    /\ gw.headers["Authorization"] = apiService_authHeader(StoredToken)
    /\ gw.headers["Authorization"] = request_authHeader(StoredToken)

\* C14 (as claimed): the headers sent are the JSON content-type default
\* overlaid with the caller's headers: every caller-supplied header,
\* Content-Type and Authorization included, is sent with the caller's value.
C14_Caller_Wins ==
  gw.stage = "sent" =>
    /\ \A k \in DOMAIN gw.options : gw.headers[k] = gw.options[k]
    /\ "Content-Type" \in DOMAIN gw.headers
    /\ "Content-Type" \notin DOMAIN gw.options =>
         gw.headers["Content-Type"] = <<"application/json">>

\* C14 (amended): as claimed, except for Authorization while a non-empty
\* credential is stored: then the header built from the stored credential is
\* sent in place of the caller's.
C14_Caller_Wins_Amended ==
  gw.stage = "sent" =>
    /\ \A k \in DOMAIN gw.options :
         IF k = "Authorization" /\ Truthy(StoredToken)
         THEN gw.headers[k] = HeaderFor(StoredToken)
         ELSE gw.headers[k] = gw.options[k]
    /\ "Content-Type" \in DOMAIN gw.headers
    /\ "Content-Type" \notin DOMAIN gw.options =>
         gw.headers["Content-Type"] = <<"application/json">>

C14_Witness ==
  /\ gw.stage = "sent"
  /\ gw.options = "Content-Type" :> <<"text/plain">>
  /\ gw.headers["Content-Type"] = <<"text/plain">>
  /\ Truthy(StoredToken)

\* a generic HTTP-error text that contains the status code
GenericHttpError(text, status) ==
  \E prefix \in {"HTTP error! status: ", "HTTP error ", "HTTP error: "} :
    text = prefix \o ToString(status)

\* C15: the failure raised for a non-2xx response with a JSON body carries the
\* body's message when that is non-empty, otherwise its error or its msg when
\* one of them is non-empty, otherwise a generic HTTP-error text containing
\* the status code; 401 is no exception.
C15_Best_Message ==
  (gw.stage = "settled" /\ ~responseOk(gw.resp.status) /\ gw.resp.bodyJson
     /\ gw.resp.ctype \in JsonContentTypes) =>
    LET body == gw.resp.json IN
    /\ gw.settled = "rejected"
    /\ IF Truthy(Field(body, "message")) THEN gw.error = Field(body, "message")
       ELSE IF Truthy(Field(body, "error")) \/ Truthy(Field(body, "msg"))
       THEN \/ Truthy(Field(body, "error")) /\ gw.error = Field(body, "error")
            \/ Truthy(Field(body, "msg")) /\ gw.error = Field(body, "msg")
       ELSE GenericHttpError(gw.error, gw.resp.status)

\* C16: a response with a status in 200..299, a JSON content type and a
\* well-formed body resolves the gateway call with the parsed body, and the
\* step changes neither the storage nor the navigation target; when the body
\* is the request's own body echoed, the caller gets back the object it
\* encoded.
C16_Success_Returns_Body ==
  [][ (gw.stage = "sent" /\ gw'.stage = "settled"
         /\ gw'.resp.status \in 200..299
         /\ gw'.resp.ctype \in JsonContentTypes /\ gw'.resp.bodyJson) =>
        /\ gw'.settled = "resolved"
        /\ gw'.data = gw'.resp.json
        /\ localStorage' = localStorage
        /\ href' = href
        /\ gw'.resp.json = JSONparse(gw.body) => gw'.data = gw.payload ]_vars

C16_Witness ==
  /\ gw.stage = "settled"
  /\ lib = "api"
  /\ gw.op = "create"
  /\ gw.resp.status = 299
  /\ gw.resp.ctype = "application/json; charset=utf-8"
  /\ gw.settled = "resolved"
  /\ gw.data = gw.payload
  /\ gw.data["coins"] = MaxCoins
  /\ Truthy(StoredToken)

\* C17: a response that declares no JSON content type is not parsed: its text
\* wrapped as {message: text} is what a 2xx status returns, and a non-empty
\* text is the message of the failure a non-2xx status raises.
C17_Text_Is_Wrapped ==
  (gw.stage = "settled" /\ gw.resp.ctype \notin JsonContentTypes) =>
    IF responseOk(gw.resp.status)
    THEN gw.settled = "resolved"
         /\ gw.data = [ message |-> responseText(gw.resp) ]
    ELSE gw.settled = "rejected"
         /\ (Truthy(responseText(gw.resp)) =>
               gw.error = responseText(gw.resp))

\* a well-formed address: one "@" with something before it, no white space,
\* and after the "@" a dot with something on both sides
WellFormedEmail(email) ==
  LET ats == { i \in 1..Len(email) : email[i] = "@" } IN
  /\ Cardinality(ats) = 1
  /\ \A i \in 1..Len(email) : email[i] # " "
  /\ \A at \in ats :
       /\ at > 1
       /\ \E dot \in 1..Len(email) :
            email[dot] = "." /\ dot > at + 1 /\ dot < Len(email)

\* a coins value that is missing, is no number, or is a number below 1
CoinsRejected(coins) ==
  \/ coins = <<>>
  \/ \E i \in 1..Len(coins) : coins[i] \notin Digits \cup {"-", "."}
  \/ Head(coins) \in {"-", "0"}

\* the submission fails validation as the forms' rules are documented, on the
\* values as the forms read them (name, email, title and description trimmed)
FailsValidation(page, fields) ==
  CASE page = "login" ->
         \/ ~WellFormedEmail(trim(fields.email))
         \/ fields.password = <<>>
    [] page = "register" ->
         \/ Len(trim(fields.name)) < 2
         \/ ~WellFormedEmail(trim(fields.email))
         \/ Len(fields.password) < 6
    [] page = "create-task" ->
         \/ Len(trim(fields.title)) < 5
         \/ Len(trim(fields.description)) < 10
         \/ CoinsRejected(fields.coins)

C19_Reward_Within_Balance ==
  (form.page = "create-task" /\ form.last = "sent") =>
    form.sentCoins <= form.balance

\* C20: a form has at most one call outstanding, and its submit button is
\* disabled while the call is outstanding.
C20_One_Call_Per_Control ==
  /\ form.page # NULL => form.outstanding <= 1
  /\ (form.page # NULL /\ form.outstanding > 0) => form.disabled

C20_Witness ==
  /\ form.page = "login"
  /\ form.outstanding = 1
  /\ form.disabled
  /\ ev.kind = "FormSubmit"

\* C21: after any rejected submit call (an error status or a network
\* failure) the submit button is enabled again and shows the label it had
\* before the submit, the rejection itself sends nothing, no call stays
\* outstanding, and a further submit by the user is accepted.
C21_Rejected_Submit_Reenables ==
  [][ (ev'.kind \in {"FormSettle", "FormNetworkFail"}
         /\ ev'.settled = "rejected")
      => /\ ~form'.disabled
         /\ form'.label = ButtonLabel(form.page)
         /\ ev'.sent = 0
         /\ form'.outstanding = 0 ]_vars

C21_Witness ==
  /\ ev.kind = "FormSettle" /\ ev.settled = "rejected" /\ ev.status = 500
  /\ form.page = "create-task"
  /\ ~form.disabled /\ form.label = "Create Task" /\ form.outstanding = 0

\* the steps that redirect because the credential is missing or rejected:
\* session guard, page-script token check, gateway 401 handling, logout
CredentialRedirects ==
  {"AuthGuard", "RequireAuth", "DashboardScript", "Complete", "Logout"}

\* C22: every redirect caused by a missing or rejected credential targets
\* one and the same login-page path: when such a redirect is pending and a
\* further one is made before the browser navigates, both lead to the same
\* page.
C22_One_Login_Target ==
  [][ (/\ href # NoNav /\ PageName(href) = "login.html"
       /\ ev'.redirected /\ ev'.kind \in CredentialRedirects)
      => Resolve(href', pathname') = Resolve(href, pathname) ]_vars

\* the gateway tries to parse the body as JSON and the body is not JSON
CannotParse(l, resp) ==
  /\ ~resp.bodyJson
  /\ l = "api" => resp.ctype \in JsonContentTypes

C24_Profile_Needs_Credential ==
  [][ (/\ ev'.kind = "Complete" /\ ev'.hdr # NoHeader
       /\ ~Truthy(LibToken(lib, localStorage))
       /\ localStorage["current_user"] = NULL)
      => (localStorage'["current_user"] # NULL
            => Truthy(LibToken(lib, localStorage'))) ]_vars

\* C25: a 401 response to a request that was built before a successful
\* login stored a new credential does not remove that newer credential.
C25_Stale_401_Keeps_New_Credential ==
  [][ (/\ ev'.kind = "Complete" /\ ev'.status = 401
       /\ session # NULL /\ LibToken(lib, localStorage) = session
       /\ ev'.hdr # HeaderFor(session))
      => LibToken(lib, localStorage') = session ]_vars

\* C26: when a member of the dashboard's joint await (getPosted with
\* getAssigned) is answered 401 by js/api.js, the state is the one a single
\* 401 leaves, whether the member is the first or the second to complete:
\* credential absent, cached profile absent, navigation target the login
\* page; the joint await is rejected by the first rejection only.
C26_Joint_401_Same_State ==
  (/\ lib = "api" /\ ev.kind = "Complete" /\ ev.status = 401
   /\ ev.origin \in {"joint", "joint-rejected"})
  => /\ ~Truthy(LibToken(lib, localStorage))
     /\ localStorage["current_user"] = NULL
     /\ href = LoginPath
     /\ ev.caught <=> ev.origin = "joint"

\* the page has finished loading, no redirect is pending and no request is
\* outstanding: nothing happens any more without user input
AtRest ==
  /\ href = NoNav
  /\ phase \in {"ready", "unserved"}
  /\ inflight = <<>>

\* C27: from any contents of the storage keys and any server verdict,
\* automatic navigation eventually comes to rest on one page: there is no
\* endless redirect cycle between the login page and a protected page.
C27_Navigation_Comes_To_Rest == <>[]AtRest

\* C28: whatever close-button clicks, backdrop clicks, Escape presses and
\* close() calls a modal made by modal.show receives, its onClose callback
\* is called at most once, and a close action on a modal that was closed
\* before leaves the body's scroll state as it is.
C28_Modal_Closes_Once ==
  [][ /\ ui'.onCloseCalls <= 1
      /\ (~ui.confirm /\ ui.closes > 0 /\ ui'.closes > ui.closes)
           => ui'.overflow = ui.overflow ]_vars

\* C29: once a confirmation modal is closed (removed from the document, no
\* close timer left) the promise of modal.confirm is settled: true if the
\* confirm button was clicked, false otherwise.
C29_Confirm_Settles ==
  (ui.kind = "modal" /\ ui.confirm /\ ~ui.attached /\ ui.timers = 0)
  => ui.promise \in {"true", "false"}

\* C30: func is invoked only when wait milliseconds have passed since the
\* latest call, with the args of that call, and once per quiet period; while
\* a call is not yet followed by its invocation exactly one timer is
\* pending, the one of the latest call: every earlier one was cancelled.
C30_Debounce ==
  /\ ui.invocations > 0 =>
       /\ ui.sinceCall <= 1
       /\ ui.sinceCall = 1 =>
            /\ ui.invokedArgs = ui.lastArgs
            /\ ui.lastInvoked >= ui.lastCall + ui.wait
  /\ ui.timers =
       IF ui.calls > 0 /\ ui.sinceCall = 0
       THEN { [ id |-> ui.calls, due |-> ui.lastCall + ui.wait,
                args |-> ui.lastArgs ] }
       ELSE {}

C30_Witness ==
  /\ ui.calls = 3 /\ ui.invocations = 2 /\ ui.sinceCall = 1
  /\ ui.lastArgs = "b" /\ ui.invokedArgs = "b"

====
